---- MODULE Spec2Model ----
(***************************************************************************)
(* Model of m_sqlauth.cpp: the SQL authentication module for Anope.        *)
(*                                                                         *)
(* ModuleSQLAuth::OnCheckAuthentication dispatches one asynchronous query  *)
(* per IdentifyRequest and attaches a SQLAuthResult to it; the query       *)
(* executor later calls SQLAuthResult::OnResult or ::OnError, which decide *)
(* the outcome, materialize the local account and destroy the verifier.    *)
(*                                                                         *)
(* Strings that the code takes apart (the stored hash) are sequences of    *)
(* one-character strings, except that the 22 salt characters and the 31    *)
(* digest characters of a bcrypt hash are one token each.  Strings that    *)
(* the code only compares (account names, emails, passwords) are TLA+      *)
(* strings.                                                                *)
(***************************************************************************)
EXTENDS Integers, Sequences, FiniteSets, TLC

\* ------------------------------------------------------------------ bounds
MaxReqs == 1
\* The login attempts of the specification of repeated and concurrent logins.
MaxLogins == 2
\* The legacy tags a stored hash may carry in front.
MaxTags == 2

\* ------------------------------------------------------------ input domains
Reqs == 1..(IF MaxLogins > MaxReqs THEN MaxLogins ELSE MaxReqs)
Accounts == {"alice", "bob"}
Passwords == {"pw1"}
Users == {"u1"}
NoUser == "NULL"
Salts == {"saltA"}
Providers == {"mysql/main"}
Engines == {"mysql/main", ""}
Reasons == {"", "disabled"}
EmailReasons == {"", "email disabled"}
Commands == {"nickserv/register", "nickserv/group", "nickserv/set/email",
             "nickserv/identify", "chanserv/register"}
Emails == {"", "old@x", "new@x"}

\* ------------------------------------------------------------------- state
VARIABLES
    engine,                 \* ModuleSQLAuth::engine
    query,                  \* ModuleSQLAuth::query
    disable_reason,         \* ModuleSQLAuth::disable_reason
    disable_email_reason,   \* ModuleSQLAuth::disable_email_reason
    nickServ,               \* Config->GetClient("NickServ") is non-null
    alive,                  \* the User objects that still exist
    msgs,                   \* per user: the messages SendMessage delivered
    NickAliasList,          \* nick -> whether it exists, and its NickCore's name
    NickCoreList,           \* account name -> whether it exists, and its email
    nextReq,                \* the next IdentifyRequest the host will create
    request,                \* per IdentifyRequest: account and password
    holds,                  \* per IdentifyRequest: holds of this module
    success,                \* per IdentifyRequest: Success was reported
    finalized,              \* per IdentifyRequest: the host finished and deleted it
    sinks,                  \* per IdentifyRequest: the SQLAuthResult objects made
                            \* for it, each with the outcome of its callback
    steps,                  \* per IdentifyRequest: what was done for it, in order
    rawHash,                \* the stored hash last normalized
    normHash,               \* hash after the normalization of rawHash
    lastCommand,            \* the command OnPreCommand was last called for
    lastReturn,             \* what that call returned
    lastReply               \* what that call replied to the command's source

vars == <<engine, query, disable_reason, disable_email_reason, nickServ, alive,
          msgs, NickAliasList, NickCoreList, nextReq, request, holds, success,
          finalized, sinks, steps, rawHash, normHash, lastCommand, lastReturn,
          lastReply>>

codecVars == <<rawHash, normHash>>
gateVars == <<lastCommand, lastReturn, lastReply>>
cfgVars == <<engine, query, disable_reason, disable_email_reason, nickServ>>
storeVars == <<NickAliasList, NickCoreList>>
hostVars == <<success, finalized>>

NoReq == [account |-> "", password |-> ""]

\* --------------------------------------------------------- string helpers
\* The legacy tag "bcrypt$$", character by character.
LegacyTag == <<"b", "c", "r", "y", "p", "t", "$", "$">>

\* hash.find("bcrypt$$") == 0
StartsWithTag(hash) ==
    /\ Len(hash) >= Len(LegacyTag)
    /\ SubSeq(hash, 1, Len(LegacyTag)) = LegacyTag

\* The normalization with substr(7): one character of the tag is kept.
Normalize_Offset7(hash) ==
    IF StartsWithTag(hash)
    THEN <<"$">> \o SubSeq(hash, 8, Len(hash))
    ELSE hash

\* hash = "$" + hash.substr(8) when the tag leads, else unchanged
Normalize(hash) ==
    IF StartsWithTag(hash)
    THEN <<"$">> \o SubSeq(hash, 9, Len(hash))
    ELSE hash

\* The 31-character digest bcrypt computes from a key and a salt, as one token.
Digest(key, salt) == "H(" \o key \o "," \o salt \o ")"

CryptFail == <<"\\NULL">>

\* _crypt_blowfish_rn(key, setting, output, size): NULL unless the setting is
\* "$2" [abxy] "$" d d "$" followed by a salt; otherwise output holds the
\* setting's prefix and salt followed by the digest of the key.
crypt_blowfish_rn(key, setting) ==
    IF /\ Len(setting) >= 8
       /\ setting[1] = "$"
       /\ setting[2] = "2"
       /\ setting[3] \in {"a", "b", "x", "y"}
       /\ setting[4] = "$"
       /\ setting[5] \in {"0", "1", "2", "3"}
       /\ setting[6] \in {"0", "1", "2", "3", "4", "5", "6", "7", "8", "9"}
       /\ setting[7] = "$"
       /\ setting[8] \in Salts
    THEN SubSeq(setting, 1, 8) \o <<Digest(key, setting[8])>>
    ELSE CryptFail

\* ------------------------------------------------------ query-result inputs
Canonical(salt, pw) == <<"$", "2", "a", "$", "1", "0", "$", salt, Digest(pw, salt)>>
Legacy(salt, pw) == LegacyTag \o Tail(Canonical(salt, pw))

StoredHashes ==
    { Canonical("saltA", "pw1"),
      Legacy("saltA", "pw1"),
      Canonical("saltA", "pw2"),
      LegacyTag \o Legacy("saltA", "pw1"),
      Canonical("saltA", "pw1") \o <<"x">>,
      <<>> }

\* An SQL::Result: an error, no row, or one row whose columns may be missing
\* (r.Get throws SQL::Exception for a missing column).
Row(hp, p, he, e) ==
    [kind |-> "ok", rows |-> 1, hasPassword |-> hp, password |-> p,
     hasEmail |-> he, email |-> e]

Results ==
    {[kind |-> "error", rows |-> 0, hasPassword |-> FALSE, password |-> <<>>,
      hasEmail |-> FALSE, email |-> ""],
     [kind |-> "ok", rows |-> 0, hasPassword |-> FALSE, password |-> <<>>,
      hasEmail |-> FALSE, email |-> ""]}
    \cup {Row(TRUE, h, TRUE, m) : h \in StoredHashes, m \in Emails}
    \cup {Row(TRUE, h, FALSE, "") : h \in StoredHashes}
    \cup {Row(FALSE, <<>>, TRUE, m) : m \in Emails}
    \cup {Row(FALSE, <<>>, FALSE, "")}

\* ------------------------------------------------------------ initial state
\* The local account store the module starts with: every nick that exists is
\* bound to an account core that exists, and a core's display nick exists.
NoAlias(a) == [exists |-> FALSE, nc |-> a]
NoCore == [exists |-> FALSE, email |-> ""]

InitStores ==
    {[alias |-> [a \in Accounts |-> NoAlias(a)],
      core |-> [a \in Accounts |-> NoCore]],
     [alias |-> [a \in Accounts |->
                    IF a = "alice" THEN [exists |-> TRUE, nc |-> a] ELSE NoAlias(a)],
      core |-> [a \in Accounts |->
                    IF a = "alice" THEN [exists |-> TRUE, email |-> "old@x"] ELSE NoCore]]}

Init ==
    /\ engine = ""
    /\ query = ""
    /\ disable_reason = ""
    /\ disable_email_reason = ""
    /\ nickServ \in BOOLEAN
    /\ alive = [u \in Users |-> TRUE]
    /\ msgs = [u \in Users |-> <<>>]
    /\ \E st \in InitStores :
        /\ NickAliasList = st.alias
        /\ NickCoreList = st.core
    /\ nextReq = 1
    /\ request = [r \in Reqs |-> NoReq]
    /\ holds = [r \in Reqs |-> 0]
    /\ success = [r \in Reqs |-> FALSE]
    /\ finalized = [r \in Reqs |-> FALSE]
    /\ sinks = [r \in Reqs |-> <<>>]
    /\ steps = [r \in Reqs |-> <<>>]
    /\ rawHash = <<>>
    /\ normHash = <<>>
    /\ lastCommand = ""
    /\ lastReturn = ""
    /\ lastReply = <<>>

\* ------------------------------------------------ ModuleSQLAuth::OnReload
\* Reads the four settings and rebinds the provider reference.
OnReload(e, q, dr, der) ==
    /\ engine' = e
    /\ query' = q
    /\ disable_reason' = dr
    /\ disable_email_reason' = der
    /\ UNCHANGED <<nickServ, alive, msgs, NickAliasList, NickCoreList, nextReq,
                   request, holds, success, finalized, sinks, steps, codecVars,
                   gateVars>>

\* Mutant of SQLBound: the provider reference is not tested.
SQLBound_Unchecked == TRUE

\* !this->SQL is false: the ServiceReference finds a provider of that name.
SQLBound == engine \in Providers

\* ------------------------------------------------------------------ steps
\* A handler is modelled by the sequence of operations it performs, in program
\* order, on the path it takes; the action then applies that sequence.
Step(op, arg) == <<op, arg>>

Count(ss, op) == Cardinality({k \in DOMAIN ss : ss[k][1] = op})
Has(ss, op) == \E k \in DOMAIN ss : ss[k][1] = op
Pos(ss, op) == CHOOSE k \in DOMAIN ss : ss[k][1] = op
ArgOf(ss, op) == ss[CHOOSE k \in DOMAIN ss : ss[k][1] = op][2]

\* --------------------------------------------------- IdentifyRequest (host)
\* IdentifyRequest::Hold
Hold(h) == h + 1

\* IdentifyRequest::Release
Release(h) == h - 1

\* IdentifyRequest::Success
Success(s) == TRUE

\* IdentifyRequest::Dispatch, and the test Release repeats: a request that no
\* module holds is finished by the host and deleted.
Finishes(h) == h = 0

\* The holds on a request after the Hold and Release calls of ss.
RECURSIVE ApplyHolds(_, _)
ApplyHolds(h, ss) ==
    IF ss = <<>> THEN h
    ELSE ApplyHolds(IF Head(ss)[1] = "Hold" THEN Hold(h)
                    ELSE IF Head(ss)[1] = "Release" THEN Release(h)
                    ELSE h,
                    Tail(ss))

\* The success flag of a request after the Success calls of ss.
ApplySuccess(s, ss) == IF Has(ss, "Success") THEN Success(s) ELSE s

\* A user session goes away; every Reference<User> to it becomes null.
UserQuit(u) ==
    /\ alive[u]
    /\ alive' = [alive EXCEPT ![u] = FALSE]
    /\ UNCHANGED <<cfgVars, msgs, storeVars, nextReq, request, holds, hostVars,
                   sinks, steps, codecVars, gateVars>>

\* ------------------------------------- SQLAuthResult::SQLAuthResult
NewSink(u, cp) ==
    [user |-> u, currPass |-> cp, state |-> "pending", outcome |-> "none"]

\* ------------------------------- ModuleSQLAuth::OnCheckAuthentication
\* Mutant of CheckSteps: the verifier is constructed without holding the
\* request.
CheckSteps_NoHold(acct) ==
    IF ~SQLBound
    THEN <<Step("Log", "Unable to find SQL engine")>>
    ELSE <<Step("GetAccount", ""), Step("GetPassword", ""), Step("GetPassword", ""),
           Step("new SQLAuthResult", ""), Step("Run", acct),
           Step("GetAccount", ""), Step("Log", "Checking authentication")>>

\* What the hook does for the request, in order.
CheckSteps(acct) ==
    IF ~SQLBound
    THEN <<Step("Log", "Unable to find SQL engine")>>
    ELSE <<Step("GetAccount", ""), Step("GetPassword", ""), Step("GetPassword", ""),
           Step("new SQLAuthResult", ""), Step("Hold", ""), Step("Run", acct),
           Step("GetAccount", ""), Step("Log", "Checking authentication")>>

\* The host creates IdentifyRequest r for (acct, pass), asks the module and
\* dispatches the request.
CheckAuthentication(u, acct, pass) ==
    LET r == nextReq
        ss == CheckSteps(acct)
    IN
    /\ nextReq \in Reqs
    /\ u \in {NoUser} \cup {x \in Users : alive[x]}
    /\ nextReq' = nextReq + 1
    /\ request' = [request EXCEPT ![r] = [account |-> acct, password |-> pass]]
    /\ steps' = [steps EXCEPT ![r] = ss]
    /\ sinks' = [sinks EXCEPT ![r] =
                    [k \in 1..Count(ss, "new SQLAuthResult") |-> NewSink(u, pass)]]
    /\ holds' = [holds EXCEPT ![r] = ApplyHolds(@, ss)]
    /\ finalized' = [finalized EXCEPT ![r] = Finishes(ApplyHolds(holds[r], ss))]
    /\ UNCHANGED <<cfgVars, alive, msgs, storeVars, success, codecVars, gateVars>>

\* The hook, for the attempts the host makes in the authentication pipeline.
OnCheckAuthentication(u, acct, pass) ==
    /\ nextReq <= MaxReqs
    /\ CheckAuthentication(u, acct, pass)

\* ---------------------------------------------- SQLAuthResult::OnResult
\* hash = r.Get(0, "password"); email = r.Get(0, "email"); the first missing
\* column throws and leaves the remaining variables empty.
\* Mutant of ExtractHash: the hash is dropped when any column is missing.
ExtractHash_AllOrNothing(res) ==
    IF res.hasPassword /\ res.hasEmail THEN res.password ELSE <<>>

ExtractHash(res) == IF res.hasPassword THEN res.password ELSE <<>>
ExtractEmail(res) == IF res.hasPassword /\ res.hasEmail THEN res.email ELSE ""

\* Mutant of Outcome: is_match is not tested.
Outcome_NoCompare(cp, res) ==
    LET hash == Normalize(ExtractHash(res))
        hash_output == crypt_blowfish_rn(cp, hash)
    IN  IF res.rows = 0 THEN "NotFound"
        ELSE IF hash_output = CryptFail THEN "HashMalformed"
        ELSE "Success"

\* Mutant of Outcome: the computed hash is compared with the hash as stored,
\* before normalization.
Outcome_RawCompare(cp, res) ==
    LET hash == Normalize(ExtractHash(res))
        hash_output == crypt_blowfish_rn(cp, hash)
    IN  IF res.rows = 0 THEN "NotFound"
        ELSE IF hash_output = CryptFail THEN "HashMalformed"
        ELSE IF ~(ExtractHash(res) = hash_output) THEN "Mismatch"
        ELSE "Success"

\* Mutant of Outcome: the row count is not tested.
Outcome_RowsIgnored(cp, res) ==
    LET hash == Normalize(ExtractHash(res))
        hash_output == crypt_blowfish_rn(cp, hash)
    IN  IF hash_output = CryptFail THEN "HashMalformed"
        ELSE IF ~(hash = hash_output) THEN "Mismatch"
        ELSE "Success"

\* Mutant of Outcome: the return value of the primitive is not tested.
Outcome_CryptUnchecked(cp, res) ==
    LET hash == Normalize(ExtractHash(res))
        hash_output == crypt_blowfish_rn(cp, hash)
    IN  IF res.rows = 0 THEN "NotFound"
        ELSE IF ~(hash = hash_output) THEN "Mismatch"
        ELSE "Success"

\* The exit OnResult takes for a result, by the conditions it tests in order.
Outcome(cp, res) ==
    LET hash == Normalize(ExtractHash(res))
        hash_output == crypt_blowfish_rn(cp, hash)
    IN  IF res.rows = 0 THEN "NotFound"
        ELSE IF hash_output = CryptFail THEN "HashMalformed"
        ELSE IF ~(hash = hash_output) THEN "Mismatch"
        ELSE "Success"

\* Mutant of UserRef: a plain User pointer, which still names the session
\* after it is gone.
UserRef_Dangling(v) == v.user

\* The user the Reference<User> yields now: null once the User is gone.
UserRef(v) == IF v.user # NoUser /\ alive[v.user] THEN v.user ELSE NoUser

\* Mutant of NeedsAccount: the result of NickAlias::Find is not tested.
NeedsAccount_FindIgnored(acct) == TRUE

\* na == NULL after NickAlias::Find(req->GetAccount())
NeedsAccount(acct) == ~NickAliasList[acct].exists

\* na->nc->email as the comparison reads it: a core just created has none.
StoredEmail(acct) ==
    IF NeedsAccount(acct) THEN "" ELSE NickCoreList[NickAliasList[acct].nc].email

\* Mutant of EmailDiffers: the external email is not compared with the stored
\* one.
EmailDiffers_NotCompared(acct, email) == email # ""

\* Mutant of EmailDiffers: an empty external email is not excluded.
EmailDiffers_EmptyAllowed(acct, email) == email # StoredEmail(acct)

\* !email.empty() && email != na->nc->email
EmailDiffers(acct, email) == email # "" /\ email # StoredEmail(acct)

\* if (user && NickServ) user->SendMessage(...)
CanSend(v) == UserRef(v) # NoUser /\ nickServ

\* What the success branch does for the account, in order.
SyncSteps(v, acct, email) ==
    <<Step("GetAccount", ""), Step("NickAlias::Find", acct)>>
    \o (IF NeedsAccount(acct)
        THEN <<Step("GetAccount", ""), Step("new NickCore", acct),
               Step("GetAccount", ""), Step("new NickAlias", acct),
               Step("OnNickRegister", acct)>>
             \o (IF CanSend(v)
                 THEN <<Step("SendMessage: Your account has been confirmed.", acct)>>
                 ELSE <<>>)
        ELSE <<>>)
    \o (IF EmailDiffers(acct, email)
        THEN <<Step("set email", email)>>
             \o (IF CanSend(v)
                 THEN <<Step("SendMessage: E-mail set to", email)>>
                 ELSE <<>>)
        ELSE <<>>)

\* Mutant of DeleteThis: the hold is released by hand before the destructor
\* releases it again.
DeleteThis_DoubleRelease ==
    <<Step("Release", ""), Step("delete this", ""), Step("Release", "")>>

\* delete this: the destructor releases the hold.
DeleteThis == <<Step("delete this", ""), Step("Release", "")>>

\* Mutant of ResultSteps: the account is materialized before the hashes are
\* compared, so a mismatch has already touched the account store.
ResultSteps_SyncBeforeCompare(v, acct, res) ==
    LET o == Outcome(v.currPass, res) IN
    IF o = "NotFound"
    THEN <<Step("GetAccount", ""), Step("Log", "NOT found")>> \o DeleteThis
    ELSE
        <<Step("GetAccount", ""), Step("Log", "found"),
          Step("GetAccount", ""), Step("Log", "processing")>>
        \o (IF o = "HashMalformed"
            THEN <<Step("Log", "Bcrypt comparison failed")>> \o DeleteThis
            ELSE IF o = "Mismatch"
            THEN SyncSteps(v, acct, ExtractEmail(res))
                 \o <<Step("Log", "hash NOT EQUAL pass"),
                      Step("GetAccount", ""),
                      Step("Log", "Unsuccessful authentication")>> \o DeleteThis
            ELSE <<Step("GetAccount", ""), Step("Log", "LOGGED IN")>>
                 \o SyncSteps(v, acct, ExtractEmail(res))
                 \o <<Step("Success", "")>> \o DeleteThis)

\* Mutant of ResultSteps: the bcrypt-failure exit returns without delete this.
ResultSteps_LeakOnBcryptFailure(v, acct, res) ==
    LET o == Outcome(v.currPass, res) IN
    IF o = "NotFound"
    THEN <<Step("GetAccount", ""), Step("Log", "NOT found")>> \o DeleteThis
    ELSE
        <<Step("GetAccount", ""), Step("Log", "found"),
          Step("GetAccount", ""), Step("Log", "processing")>>
        \o (IF o = "HashMalformed"
            THEN <<Step("Log", "Bcrypt comparison failed")>>
            ELSE IF o = "Mismatch"
            THEN <<Step("Log", "hash NOT EQUAL pass"),
                   Step("GetAccount", ""),
                   Step("Log", "Unsuccessful authentication")>> \o DeleteThis
            ELSE <<Step("GetAccount", ""), Step("Log", "LOGGED IN")>>
                 \o SyncSteps(v, acct, ExtractEmail(res))
                 \o <<Step("Success", "")>> \o DeleteThis)

\* Mutant of ResultSteps: success is reported before the account is looked up
\* and materialized.
ResultSteps_SuccessFirst(v, acct, res) ==
    LET o == Outcome(v.currPass, res) IN
    IF o = "NotFound"
    THEN <<Step("GetAccount", ""), Step("Log", "NOT found")>> \o DeleteThis
    ELSE
        <<Step("GetAccount", ""), Step("Log", "found"),
          Step("GetAccount", ""), Step("Log", "processing")>>
        \o (IF o = "HashMalformed"
            THEN <<Step("Log", "Bcrypt comparison failed")>> \o DeleteThis
            ELSE IF o = "Mismatch"
            THEN <<Step("Log", "hash NOT EQUAL pass"),
                   Step("GetAccount", ""),
                   Step("Log", "Unsuccessful authentication")>> \o DeleteThis
            ELSE <<Step("GetAccount", ""), Step("Log", "LOGGED IN"),
                   Step("Success", "")>>
                 \o SyncSteps(v, acct, ExtractEmail(res))
                 \o DeleteThis)

\* Mutant of ResultSteps: on a mismatch the verifier is deleted before the
\* last log line reads the account name from the request.
ResultSteps_LogAfterDelete(v, acct, res) ==
    LET o == Outcome(v.currPass, res) IN
    IF o = "NotFound"
    THEN <<Step("GetAccount", ""), Step("Log", "NOT found")>> \o DeleteThis
    ELSE
        <<Step("GetAccount", ""), Step("Log", "found"),
          Step("GetAccount", ""), Step("Log", "processing")>>
        \o (IF o = "HashMalformed"
            THEN <<Step("Log", "Bcrypt comparison failed")>> \o DeleteThis
            ELSE IF o = "Mismatch"
            THEN <<Step("Log", "hash NOT EQUAL pass")>> \o DeleteThis
                 \o <<Step("GetAccount", ""),
                      Step("Log", "Unsuccessful authentication")>>
            ELSE <<Step("GetAccount", ""), Step("Log", "LOGGED IN")>>
                 \o SyncSteps(v, acct, ExtractEmail(res))
                 \o <<Step("Success", "")>> \o DeleteThis)

\* Everything OnResult does for the request, in order, on each of its exits.
ResultSteps(v, acct, res) ==
    LET o == Outcome(v.currPass, res) IN
    IF o = "NotFound"
    THEN <<Step("GetAccount", ""), Step("Log", "NOT found")>> \o DeleteThis
    ELSE
        <<Step("GetAccount", ""), Step("Log", "found"),
          Step("GetAccount", ""), Step("Log", "processing")>>
        \o (IF o = "HashMalformed"
            THEN <<Step("Log", "Bcrypt comparison failed")>> \o DeleteThis
            ELSE IF o = "Mismatch"
            THEN <<Step("Log", "hash NOT EQUAL pass"),
                   Step("GetAccount", ""),
                   Step("Log", "Unsuccessful authentication")>> \o DeleteThis
            ELSE <<Step("GetAccount", ""), Step("Log", "LOGGED IN")>>
                 \o SyncSteps(v, acct, ExtractEmail(res))
                 \o <<Step("Success", "")>> \o DeleteThis)

\* Mutant of ErrorSteps: OnError returns without deleting the verifier.
ErrorSteps_NoDelete == <<Step("Log", "Error when executing query")>>

\* Mutant of ErrorSteps: OnError reports success before deleting the verifier.
ErrorSteps_Success ==
    <<Step("Log", "Error when executing query"), Step("Success", "")>> \o DeleteThis

\* ----------------------------------------------- SQLAuthResult::OnError
ErrorSteps == <<Step("Log", "Error when executing query")>> \o DeleteThis

\* ------------------------------------------------- applying a callback
\* The verifier after a callback that performed ss: gone if it deleted itself.
AfterCallback(v, o, ss) ==
    [v EXCEPT !.state = IF Has(ss, "delete this") THEN "destroyed" ELSE "returned",
              !.outcome = o]

\* The nick table after the account operations of ss.
AliasAfter(ss) ==
    [a \in Accounts |->
        IF \E k \in DOMAIN ss : ss[k] = Step("new NickAlias", a)
        THEN [exists |-> TRUE, nc |-> a]
        ELSE NickAliasList[a]]

\* The account table after the account operations of ss, performed for the
\* nick acct: new cores first, then na->nc->email = email.
CoreAfter(acct, ss) ==
    LET created == [a \in Accounts |->
                       IF \E k \in DOMAIN ss : ss[k] = Step("new NickCore", a)
                       THEN [exists |-> TRUE, email |-> ""]
                       ELSE NickCoreList[a]]
    IN  IF Has(ss, "set email")
        THEN [created EXCEPT ![AliasAfter(ss)[acct].nc].email = ArgOf(ss, "set email")]
        ELSE created

IsMessage(st) == st[1] \in {"SendMessage: Your account has been confirmed.",
                            "SendMessage: E-mail set to"}

\* The messages each user has received after the SendMessage calls of ss.
MsgsAfter(v, ss) ==
    IF UserRef(v) # NoUser
    THEN [msgs EXCEPT ![UserRef(v)] = @ \o SelectSeq(ss, IsMessage)]
    ELSE msgs

\* The query executor completes the query of the i-th verifier of request r,
\* and the verifier performs ss with outcome o.
Callback(r, i, o, ss) ==
    LET v == sinks[r][i]
        acct == request[r].account
    IN
    /\ v.state = "pending"
    /\ steps' = [steps EXCEPT ![r] = @ \o ss]
    /\ NickAliasList' = AliasAfter(ss)
    /\ NickCoreList' = CoreAfter(acct, ss)
    /\ msgs' = MsgsAfter(v, ss)
    /\ success' = [success EXCEPT ![r] = ApplySuccess(@, ss)]
    /\ holds' = [holds EXCEPT ![r] = ApplyHolds(@, ss)]
    /\ finalized' = [finalized EXCEPT ![r] = Finishes(ApplyHolds(holds[r], ss))]
    /\ sinks' = [sinks EXCEPT ![r][i] = AfterCallback(v, o, ss)]
    /\ UNCHANGED <<cfgVars, alive, nextReq, request, codecVars, gateVars>>

OnResult(r, i, res) ==
    /\ res.kind = "ok"
    /\ Callback(r, i, Outcome(sinks[r][i].currPass, res),
                ResultSteps(sinks[r][i], request[r].account, res))

OnError(r, i, res) ==
    /\ res.kind = "error"
    /\ Callback(r, i, "QueryError", ErrorSteps)

\* ------------------------------------------------------------ specification
\* The authentication pipeline.  The two policy strings are read by no step of
\* it, so its reloads leave them empty.
Next ==
    \/ \E e \in Engines : OnReload(e, "SELECT", "", "")
    \/ \E u \in Users \cup {NoUser}, a \in Accounts, p \in Passwords :
          OnCheckAuthentication(u, a, p)
    \/ \E u \in Users : UserQuit(u)
    \/ \E r \in Reqs : \E i \in DOMAIN sinks[r] : \E res \in Results :
          OnResult(r, i, res)
    \/ \E r \in Reqs : \E i \in DOMAIN sinks[r] : \E res \in Results :
          OnError(r, i, res)

Spec == Init /\ [][Next]_vars

\* The query executor calls OnResult or OnError for every query it was given.
Deliver(r) ==
    \E i \in DOMAIN sinks[r] : \E res \in Results :
        OnResult(r, i, res) \/ OnError(r, i, res)

FairSpec == Spec /\ \A r \in Reqs : WF_vars(Deliver(r))

\* ------------------------------------------------- the hash normalization
RECURSIVE Tags(_)
Tags(k) == IF k = 0 THEN <<>> ELSE LegacyTag \o Tags(k - 1)

\* Stored hashes around the legacy tag: no, one or several tags, at the front,
\* behind another character, cut short, or behind the hash.
HashInputs ==
    StoredHashes \cup
    { lead \o Tags(k) \o body :
        lead \in {<<>>, <<"x">>, SubSeq(LegacyTag, 1, 7)},
        k \in 0..MaxTags,
        body \in {<<>>, <<"$">>, Tail(Canonical("saltA", "pw1")),
                  Canonical("saltA", "pw1"),
                  Tail(Canonical("saltA", "pw1")) \o LegacyTag} }

\* OnResult's normalization of the hash it extracted.
NormalizeHash(hash) ==
    /\ rawHash' = hash
    /\ normHash' = Normalize(hash)
    /\ UNCHANGED <<cfgVars, alive, msgs, storeVars, nextReq, request, holds,
                   hostVars, sinks, steps, gateVars>>

CodecNext == \E hash \in HashInputs : NormalizeHash(hash)

CodecSpec == Init /\ [][CodecNext]_vars

\* ------------------------------------------------------------ properties
Pending(r, i) == sinks[r][i].state = "pending"
Finished(r, i) == sinks[r][i].state # "pending"
Outcomes == {"NotFound", "QueryError", "HashMalformed", "Mismatch", "Success"}
Failures == Outcomes \ {"Success"}

\* C1 as stated: over the life of a dispatched attempt exactly one of Release
\* and Success is called on the IdentifyRequest, exactly once, on every
\* outcome path including Success.
C1_ExactlyOneOfReleaseOrSuccess ==
    \A r \in Reqs : \A i \in DOMAIN sinks[r] :
        Finished(r, i) =>
            Count(steps[r], "Release") + Count(steps[r], "Success") = 1

\* C1 (amended): for every dispatched attempt Release is called exactly once
\* by the end of the callback on every outcome path, and Success exactly once
\* on the Success path and never on the four failure paths; neither is called
\* before the callback.
C1_ReleaseOnceSuccessOnlyOnSuccess ==
    \A r \in Reqs : \A i \in DOMAIN sinks[r] :
        /\ Pending(r, i) =>
              Count(steps[r], "Release") = 0 /\ Count(steps[r], "Success") = 0
        /\ Finished(r, i) =>
              /\ sinks[r][i].outcome \in Outcomes
              /\ Count(steps[r], "Release") = 1
              /\ Count(steps[r], "Success") =
                    IF sinks[r][i].outcome = "Success" THEN 1 ELSE 0
              /\ Has(steps[r], "Success") =>
                    Pos(steps[r], "Success") < Pos(steps[r], "Release")

C1_Witness ==
    \E r \in Reqs : \E i \in DOMAIN sinks[r] :
        /\ Finished(r, i)
        /\ sinks[r][i].outcome = "Success"
        /\ Count(steps[r], "Release") = 1
        /\ Count(steps[r], "Success") = 1

\* C2: every SQLAuthResult holds the IdentifyRequest once at construction and
\* releases it once at destruction on every path: the module's holds on a
\* request are 1 while its verifier awaits the callback and 0 afterwards (the
\* verifier then being destroyed, Release its last call), never negative and
\* never above 1.
C2_HoldReleasedOnce ==
    \A r \in Reqs :
        /\ holds[r] \in {0, 1}
        /\ sinks[r] = <<>> => holds[r] = 0
        /\ \A i \in DOMAIN sinks[r] :
            /\ Count(steps[r], "Hold") = 1
            /\ Pending(r, i) => holds[r] = 1 /\ Count(steps[r], "Release") = 0
            /\ Finished(r, i) =>
                  /\ sinks[r][i].state = "destroyed"
                  /\ holds[r] = 0
                  /\ Count(steps[r], "Release") = 1
                  /\ steps[r][Len(steps[r])] = Step("Release", "")

C2_Witness ==
    \E r \in Reqs : \E i \in DOMAIN sinks[r] :
        /\ sinks[r][i].state = "destroyed"
        /\ sinks[r][i].outcome \in Failures
        /\ holds[r] = 0
        /\ Count(steps[r], "Hold") = 1

\* The verification primitive's answer for the verifier's password and the
\* normalized stored hash of a result row.
NormalizedHash(res) == Normalize(ExtractHash(res))
Recomputed(v, res) == crypt_blowfish_rn(v.currPass, NormalizedHash(res))

AccountOps == {"NickAlias::Find", "new NickCore", "new NickAlias",
               "OnNickRegister", "set email"}
NoAccountOps(ss) == \A k \in DOMAIN ss : ss[k][1] \notin AccountOps

\* C3: when the primitive returns a recomputed hash that differs from the
\* normalized stored hash, OnResult ends in Mismatch: Success is not called,
\* no account is created and no email is changed; and a request whose
\* verifier ended in Mismatch is never marked successful.
C3_MismatchStep ==
    \A r \in Reqs : \A i \in DOMAIN sinks[r] : \A res \in Results :
        (/\ Pending(r, i)
         /\ sinks'[r][i].outcome # "none"
         /\ res.rows > 0
         /\ Recomputed(sinks[r][i], res) # CryptFail
         /\ Recomputed(sinks[r][i], res) # NormalizedHash(res)
         /\ OnResult(r, i, res))
        => /\ sinks'[r][i].outcome = "Mismatch"
           /\ ~Has(steps'[r], "Success")
           /\ NoAccountOps(steps'[r])
           /\ ~success'[r]
           /\ UNCHANGED <<NickAliasList, NickCoreList>>

C3_MismatchState ==
    \A r \in Reqs : \A i \in DOMAIN sinks[r] :
        sinks[r][i].outcome = "Mismatch" =>
            ~success[r] /\ ~Has(steps[r], "Success") /\ NoAccountOps(steps[r])

C3_MismatchNeverSucceeds == []C3_MismatchState /\ [][C3_MismatchStep]_vars

C3_Witness ==
    \E r \in Reqs : \E i \in DOMAIN sinks[r] :
        /\ sinks[r][i].outcome = "Mismatch"
        /\ Has(steps[r], "Release")
        /\ ~success[r]

\* C4: when the primitive returns a recomputed hash equal to the normalized
\* stored hash, OnResult ends in Success: Success is called on the
\* IdentifyRequest and the account is looked up (and created if absent)
\* exactly once, under the account name of that IdentifyRequest.
C4_MatchStep ==
    \A r \in Reqs : \A i \in DOMAIN sinks[r] : \A res \in Results :
        (/\ Pending(r, i)
         /\ sinks'[r][i].outcome # "none"
         /\ res.rows > 0
         /\ Recomputed(sinks[r][i], res) = NormalizedHash(res)
         /\ OnResult(r, i, res))
        => /\ sinks'[r][i].outcome = "Success"
           /\ Count(steps'[r], "Success") = 1
           /\ success'[r]
           /\ Count(steps'[r], "NickAlias::Find") = 1
           /\ \A k \in DOMAIN steps'[r] :
                 steps'[r][k][1] \in AccountOps \ {"set email"}
                    => steps'[r][k][2] = request[r].account
           /\ NickAliasList'[request[r].account].exists
           /\ \A a \in Accounts \ {request[r].account} :
                 NickAliasList'[a] = NickAliasList[a]

C4_MatchSucceedsAndSyncsOnce == [][C4_MatchStep]_vars

C4_Witness ==
    \E r \in Reqs : \E i \in DOMAIN sinks[r] :
        /\ sinks[r][i].outcome = "Success"
        /\ success[r]
        /\ Count(steps[r], "NickAlias::Find") = 1
        /\ ArgOf(steps[r], "NickAlias::Find") = request[r].account
        /\ NickAliasList[request[r].account].exists

\* C5: a result with zero rows ends in NotFound: no account operation is
\* performed, the account store and the users' messages are unchanged,
\* Success is not called and the IdentifyRequest is released.
C5_ZeroRowsStep ==
    \A r \in Reqs : \A i \in DOMAIN sinks[r] : \A res \in Results :
        (/\ Pending(r, i)
         /\ sinks'[r][i].outcome # "none"
         /\ res.rows = 0
         /\ OnResult(r, i, res))
        => /\ sinks'[r][i].outcome = "NotFound"
           /\ sinks'[r][i].state = "destroyed"
           /\ NoAccountOps(steps'[r])
           /\ ~Has(steps'[r], "Success")
           /\ ~success'[r]
           /\ Count(steps'[r], "Release") = 1
           /\ holds'[r] = 0
           /\ UNCHANGED <<NickAliasList, NickCoreList, msgs>>

C5_ZeroRowsNotFound == [][C5_ZeroRowsStep]_vars

C5_Witness ==
    \E r \in Reqs : \E i \in DOMAIN sinks[r] :
        /\ sinks[r][i].outcome = "NotFound"
        /\ NoAccountOps(steps[r])
        /\ holds[r] = 0
        /\ ~success[r]

\* C6: when the query executor calls OnError the outcome is QueryError:
\* Success is not called, the account store is unchanged and the hold is
\* released.
C6_ErrorStep ==
    \A r \in Reqs : \A i \in DOMAIN sinks[r] : \A res \in Results :
        (/\ Pending(r, i)
         /\ sinks'[r][i].outcome # "none"
         /\ OnError(r, i, res))
        => /\ sinks'[r][i].outcome = "QueryError"
           /\ sinks'[r][i].state = "destroyed"
           /\ ~Has(steps'[r], "Success")
           /\ ~success'[r]
           /\ Count(steps'[r], "Release") = 1
           /\ holds[r] = 1 /\ holds'[r] = 0
           /\ UNCHANGED <<NickAliasList, NickCoreList>>

C6_QueryErrorReleases == [][C6_ErrorStep]_vars

C6_Witness ==
    \E r \in Reqs : \E i \in DOMAIN sinks[r] :
        /\ sinks[r][i].outcome = "QueryError"
        /\ sinks[r][i].state = "destroyed"
        /\ holds[r] = 0
        /\ ~success[r]

\* What a callback with result res would do for the pending verifier i of
\* request r, and what the caller could see of it: the Hold, Release and
\* Success calls on the IdentifyRequest, the messages of every user session
\* and the account store.
StepsFor(r, i, res) ==
    IF res.kind = "error" THEN ErrorSteps
    ELSE ResultSteps(sinks[r][i], request[r].account, res)

OutcomeFor(r, i, res) ==
    IF res.kind = "error" THEN "QueryError"
    ELSE Outcome(sinks[r][i].currPass, res)

IsReqCall(st) == st[1] \in {"Hold", "Release", "Success"}
IsLog(st) == st[1] = "Log"

Seen(r, i, res) ==
    LET ss == StepsFor(r, i, res) IN
    [calls |-> SelectSeq(steps[r] \o ss, IsReqCall),
     msgs |-> MsgsAfter(sinks[r][i], ss),
     alias |-> AliasAfter(ss),
     core |-> CoreAfter(request[r].account, ss),
     success |-> ApplySuccess(success[r], ss),
     holds |-> ApplyHolds(holds[r], ss)]

FailingResults(r, i) == {res \in Results : OutcomeFor(r, i, res) \in Failures}

\* C7: the four failure outcomes look the same to the caller.  From any state
\* with a pending verifier all four failures can occur, and any two callbacks
\* that fail leave the same calls
\* on the IdentifyRequest (Hold, then Release, never Success), the same
\* messages and the same account store, and differ in the diagnostic log when
\* their outcomes differ; and every failing callback step appends only a
\* Release to the calls and changes neither messages nor accounts.
C7_SameFromAnyState ==
    \A r \in Reqs : \A i \in DOMAIN sinks[r] :
        Pending(r, i) =>
            LET seen == {Seen(r, i, f) : f \in FailingResults(r, i)}
                logs == {<<OutcomeFor(r, i, f), SelectSeq(StepsFor(r, i, f), IsLog)>> :
                            f \in FailingResults(r, i)}
            IN  /\ {o[1] : o \in logs} = Failures
                /\ Cardinality(seen) = 1
                /\ \A o \in seen :
                      o.calls = <<Step("Hold", ""), Step("Release", "")>>
                /\ \A o1 \in logs : \A o2 \in logs :
                      o1[1] # o2[1] => o1[2] # o2[2]

C7_FailingStep ==
    \A r \in Reqs : \A i \in DOMAIN sinks[r] :
        (Pending(r, i) /\ sinks'[r][i].outcome \in Failures)
        => /\ SelectSeq(steps'[r], IsReqCall) = <<Step("Hold", ""), Step("Release", "")>>
           /\ UNCHANGED <<msgs, NickAliasList, NickCoreList, success>>

C7_FailuresIndistinguishable == []C7_SameFromAnyState /\ [][C7_FailingStep]_vars

C7_Witness ==
    \E r \in Reqs : \E i \in DOMAIN sinks[r] :
        /\ sinks[r][i].outcome \in Failures
        /\ SelectSeq(steps[r], IsReqCall) = <<Step("Hold", ""), Step("Release", "")>>
        /\ \A u \in Users : msgs[u] = <<>>

\* C8: an IdentifyRequest has at most one SQLAuthResult; while that verifier
\* awaits its callback the module's hold is in place and the host has not
\* finished the request; and once the verifier has reported an outcome, it
\* reports nothing more (its record and the request's steps never change).
C8_HeldWhilePending ==
    \A r \in Reqs :
        /\ Len(sinks[r]) <= 1
        /\ \A i \in DOMAIN sinks[r] :
            /\ Pending(r, i) =>
                  holds[r] >= 1 /\ ~finalized[r] /\ sinks[r][i].outcome = "none"
            /\ Finished(r, i) => sinks[r][i].outcome \in Outcomes

C8_OneOutcomeStep ==
    \A r \in Reqs : \A i \in DOMAIN sinks[r] :
        Finished(r, i) =>
            /\ sinks'[r] = sinks[r]
            /\ steps'[r] = steps[r]
            /\ success'[r] = success[r]

C8_OneVerifierHeldUntilCallback == []C8_HeldWhilePending /\ [][C8_OneOutcomeStep]_vars

C8_Witness ==
    \E r \in Reqs :
        /\ Len(sinks[r]) = 1
        /\ Pending(r, 1)
        /\ holds[r] = 1
        /\ ~finalized[r]

\* C9: if the query executor eventually calls OnResult or OnError for each
\* dispatched query, every dispatched attempt eventually has its verifier
\* destroyed, its hold released and the request finished by the host.
C9_EveryAttemptTerminates ==
    \A r \in Reqs :
        (sinks[r] # <<>>) ~>
            (/\ \A i \in DOMAIN sinks[r] : sinks[r][i].state = "destroyed"
             /\ \A i \in DOMAIN sinks[r] : sinks[r][i].outcome \in Outcomes
             /\ holds[r] = 0
             /\ finalized[r])

C9_Witness ==
    \E r \in Reqs :
        /\ sinks[r] # <<>>
        /\ \A i \in DOMAIN sinks[r] : sinks[r][i].state = "destroyed"
        /\ holds[r] = 0
        /\ finalized[r]

\* C10: when no SQL provider is bound as OnCheckAuthentication is called,
\* no query is run and no SQLAuthResult is constructed, and Hold, Release and
\* Success are never called on that IdentifyRequest, then or later.
ProviderCalls == {"new SQLAuthResult", "Hold", "Release", "Success", "Run"}
NoProviderCalls(ss) == \A k \in DOMAIN ss : ss[k][1] \notin ProviderCalls

C10_UnboundStep ==
    \A u \in Users \cup {NoUser}, a \in Accounts, p \in Passwords :
        (/\ nextReq' # nextReq
         /\ engine \notin Providers
         /\ OnCheckAuthentication(u, a, p))
        => /\ sinks'[nextReq] = <<>>
           /\ holds'[nextReq] = 0
           /\ NoProviderCalls(steps'[nextReq])

C10_UntouchedStep ==
    \A r \in Reqs :
        (r < nextReq /\ sinks[r] = <<>>)
        => /\ sinks'[r] = <<>>
           /\ steps'[r] = steps[r]
           /\ holds'[r] = 0
           /\ ~success'[r]

C10_NoProviderShortCircuits ==
    [][C10_UnboundStep]_vars /\ [][C10_UntouchedStep]_vars

C10_Witness ==
    \E r \in Reqs :
        /\ r < nextReq
        /\ sinks[r] = <<>>
        /\ NoProviderCalls(steps[r])
        /\ steps[r] # <<>>
        /\ holds[r] = 0

\* ------------------------------------- repeated and concurrent logins
\* The module after a reload that bound the provider, before any login.
LoginInit ==
    /\ engine \in Providers
    /\ query = "SELECT"
    /\ disable_reason = ""
    /\ disable_email_reason = ""
    /\ nickServ \in BOOLEAN
    /\ alive = [u \in Users |-> TRUE]
    /\ msgs = [u \in Users |-> <<>>]
    /\ \E st \in InitStores :
        /\ NickAliasList = st.alias
        /\ NickCoreList = st.core
    /\ nextReq = 1
    /\ request = [r \in Reqs |-> NoReq]
    /\ holds = [r \in Reqs |-> 0]
    /\ success = [r \in Reqs |-> FALSE]
    /\ finalized = [r \in Reqs |-> FALSE]
    /\ sinks = [r \in Reqs |-> <<>>]
    /\ steps = [r \in Reqs |-> <<>>]
    /\ rawHash = <<>>
    /\ normHash = <<>>
    /\ lastCommand = ""
    /\ lastReturn = ""
    /\ lastReply = <<>>

\* Rows of accounts the external database has: both columns, a well-formed
\* hash of the right or of another password.
LoginResults ==
    {Row(TRUE, h, TRUE, m) :
        h \in {Canonical("saltA", "pw1"), Legacy("saltA", "pw1"),
                Canonical("saltA", "pw2")},
        m \in Emails}

\* Up to MaxLogins attempts may be in flight at once; their callbacks come in
\* any order.
LoginNext ==
    \/ \E u \in Users \cup {NoUser}, a \in Accounts, p \in Passwords :
          /\ nextReq <= MaxLogins
          /\ CheckAuthentication(u, a, p)
    \/ \E r \in Reqs : \E i \in DOMAIN sinks[r] : \E res \in LoginResults :
          OnResult(r, i, res)

LoginSpec == LoginInit /\ [][LoginNext]_vars

\* --------------------------------------- ModuleSQLAuth::OnPreCommand
\* Mutant of PreCommand: nickserv/group is not gated.
PreCommand_GroupOpen(name) ==
    IF disable_reason # "" /\ name = "nickserv/register"
    THEN [ret |-> "EVENT_STOP", reply |-> <<disable_reason>>]
    ELSE IF disable_email_reason # "" /\ name = "nickserv/set/email"
    THEN [ret |-> "EVENT_STOP", reply |-> <<disable_email_reason>>]
    ELSE [ret |-> "EVENT_CONTINUE", reply |-> <<>>]

\* What the hook returns for the command called name, and what it replies to
\* the command's source.
PreCommand(name) ==
    IF disable_reason # "" /\ (name = "nickserv/register" \/ name = "nickserv/group")
    THEN [ret |-> "EVENT_STOP", reply |-> <<disable_reason>>]
    ELSE IF disable_email_reason # "" /\ name = "nickserv/set/email"
    THEN [ret |-> "EVENT_STOP", reply |-> <<disable_email_reason>>]
    ELSE [ret |-> "EVENT_CONTINUE", reply |-> <<>>]

OnPreCommand(name) ==
    /\ lastCommand' = name
    /\ lastReturn' = PreCommand(name).ret
    /\ lastReply' = PreCommand(name).reply
    /\ UNCHANGED <<cfgVars, alive, msgs, storeVars, nextReq, request, holds,
                   hostVars, sinks, steps, codecVars>>

\* The command gate under every configuration of the two policy strings.
GateNext ==
    \/ \E e \in Engines, dr \in Reasons, der \in EmailReasons :
          OnReload(e, "SELECT", dr, der)
    \/ \E name \in Commands : OnPreCommand(name)

GateSpec == Init /\ [][GateNext]_vars

\* ------------------------------------------- rows with missing columns
\* The rows for which one of the two r.Get calls throws.
ExtractResults == {res \in Results : res.rows > 0 /\ ~(res.hasPassword /\ res.hasEmail)}

\* Logins once the provider is bound, answered by rows with a missing column.
ExtractNext ==
    \/ \E u \in Users \cup {NoUser}, a \in Accounts, p \in Passwords :
          OnCheckAuthentication(u, a, p)
    \/ \E u \in Users : UserQuit(u)
    \/ \E r \in Reqs : \E i \in DOMAIN sinks[r] : \E res \in ExtractResults :
          OnResult(r, i, res)

ExtractSpec == LoginInit /\ [][ExtractNext]_vars

\* ---------------------------------------------------------------- C11
ContainsTag(hash) ==
    \E k \in 1..Len(hash) :
        /\ k + Len(LegacyTag) - 1 <= Len(hash)
        /\ SubSeq(hash, k, k + Len(LegacyTag) - 1) = LegacyTag

\* C11 as stated: the normalization of every stored hash that begins with the
\* legacy tag begins with "$" and holds the tag nowhere; every other string
\* is returned unchanged.
C11_NoTagAnywhere ==
    IF StartsWithTag(rawHash)
    THEN /\ Len(normHash) > 0
         /\ normHash[1] = "$"
         /\ ~ContainsTag(normHash)
    ELSE normHash = rawHash

\* C11: the normalization of every stored hash that begins with the legacy tag
\* is "$" followed by the stored hash without its first 8 characters: it
\* begins with "$", not with the tag, and holds the tag only where the stored
\* hash holds it again behind the leading tag; every other string is returned
\* unchanged.
C11_LeadingTagReplaced ==
    IF StartsWithTag(rawHash)
    THEN /\ Len(normHash) = Len(rawHash) - 7
         /\ normHash[1] = "$"
         /\ \A k \in 2..Len(normHash) : normHash[k] = rawHash[k + 7]
         /\ ~StartsWithTag(normHash)
         /\ ContainsTag(normHash)
                <=> ContainsTag(SubSeq(rawHash, 9, Len(rawHash)))
    ELSE normHash = rawHash

C11_Witness ==
    /\ rawHash = Legacy("saltA", "pw1")
    /\ normHash = Canonical("saltA", "pw1")

\* ---------------------------------------------------------------- C12
CreationOps == {"new NickCore", "new NickAlias", "OnNickRegister"}
StoreOps == CreationOps \cup {"set email"}

\* What the callback of this step added to the steps of request r.
Added(r) == SubSeq(steps'[r], Len(steps[r]) + 1, Len(steps'[r]))

\* The local store holds (acct, email): a synchronization with these
\* arguments has been performed.
Synced(acct, email) == ~NeedsAccount(acct) /\ ~EmailDiffers(acct, email)

\* C12: a success-path synchronization for (account, email) creates at most
\* one NickCore/NickAlias pair with one OnNickRegister and updates the email
\* at most once, and it leaves the store in a state in which a synchronization
\* with the same (account, email) does only the lookup: it creates nothing,
\* notifies nobody, updates no email, sends no message and leaves the store
\* unchanged.
C12_SyncStep ==
    \A r \in Reqs : \A i \in DOMAIN sinks[r] : \A res \in LoginResults :
        (/\ Pending(r, i)
         /\ sinks'[r][i].outcome = "Success"
         /\ OnResult(r, i, res))
        => LET acct == request[r].account
               email == ExtractEmail(res)
           IN
           /\ \A op \in StoreOps : Count(Added(r), op) <= 1
           /\ \A op \in CreationOps :
                 Count(Added(r), op) = Count(Added(r), "OnNickRegister")
           /\ Synced(acct, email)'
           /\ Synced(acct, email)
                 => /\ \A op \in StoreOps : ~Has(Added(r), op)
                    /\ UNCHANGED <<storeVars, msgs>>

C12_SyncIdempotent == [][C12_SyncStep]_vars

\* Two logins of alice with the same email: the first created the account and
\* set the email, the second did neither.
C12_Witness ==
    /\ request[1].account = "alice" /\ request[2].account = "alice"
    /\ success[1] /\ success[2]
    /\ Has(steps[1], "OnNickRegister") /\ Has(steps[1], "set email")
    /\ ~Has(steps[2], "OnNickRegister") /\ ~Has(steps[2], "set email")
    /\ NickCoreList["alice"].email = ArgOf(steps[1], "set email")

\* ---------------------------------------------------------------- C13
\* The email column of the row, "" when the row has none.
ExternalEmail(res) == IF res.hasEmail THEN res.email ELSE ""

EmailMessage(st) == st[1] = "SendMessage: E-mail set to"

\* C13: a login changes the stored email of an account only when the external
\* email is non-empty and differs from the stored one, and then to the
\* external email; when the external email is empty or equal to the stored
\* one the email stays as it is and no email-change message is sent; the nick
\* and the core of an account that exists are not otherwise modified; and
\* nothing but a successful login changes the account store.
C13_EmailStep ==
    \A r \in Reqs : \A i \in DOMAIN sinks[r] : \A res \in Results :
        (/\ Pending(r, i)
         /\ sinks'[r][i].outcome # "none"
         /\ res.kind = "ok"
         /\ OnResult(r, i, res))
        => LET acct == request[r].account
               email == ExternalEmail(res)
           IN
           /\ \A a \in Accounts :
                 /\ NickAliasList[a].exists => NickAliasList'[a] = NickAliasList[a]
                 /\ NickCoreList[a].exists => NickCoreList'[a].exists
                 /\ NickCoreList'[a].email # NickCoreList[a].email
                       => /\ sinks'[r][i].outcome = "Success"
                          /\ a = NickAliasList'[acct].nc
                          /\ email # ""
                          /\ email # NickCoreList[a].email
                          /\ NickCoreList'[a].email = email
           /\ (email = "" \/ email = StoredEmail(acct))
                 => /\ \A a \in Accounts :
                          NickCoreList'[a].email = NickCoreList[a].email
                    /\ ~Has(Added(r), "set email")
                    /\ SelectSeq(Added(r), EmailMessage) = <<>>
                    /\ \A u \in Users :
                          SelectSeq(msgs'[u], EmailMessage)
                            = SelectSeq(msgs[u], EmailMessage)

C13_StoreStep ==
    storeVars' # storeVars
        => \E r \in Reqs : \E i \in DOMAIN sinks[r] :
              Pending(r, i) /\ sinks'[r][i].outcome = "Success"

C13_EmailOnlyWhenDifferent == [][C13_EmailStep /\ C13_StoreStep]_vars

\* A login has replaced the email of the account alice had before.
C13_Witness ==
    \E r \in Reqs :
        /\ request[r].account = "alice"
        /\ ~Has(steps[r], "new NickCore")
        /\ Has(steps[r], "set email")
        /\ ArgOf(steps[r], "set email") = "new@x"
        /\ NickCoreList["alice"].email = "new@x"

\* ---------------------------------------------------------------- C14
NotMessage(st) == ~IsMessage(st)

\* The verifier v as it would be without a session.
Sessionless(v) == [v EXCEPT !.user = NoUser]

\* What the callback of verifier v does when it is given res.
StepsOf(v, acct, res) ==
    IF res.kind = "error" THEN ErrorSteps ELSE ResultSteps(v, acct, res)

\* C14: whatever result a pending verifier with a session is given, it reaches
\* the outcome and performs the account operations, the Success and the
\* Release that a verifier without a session performs, in the same order, and
\* differs at most in the messages it sends; once its session is gone it
\* performs exactly the steps of a verifier without a session and sends
\* nothing.
C14_SameAsSessionless ==
    \A r \in Reqs : \A i \in DOMAIN sinks[r] : \A res \in Results :
        (Pending(r, i) /\ sinks[r][i].user # NoUser)
        => LET v == sinks[r][i]
               acct == request[r].account
               with == StepsOf(v, acct, res)
               without == StepsOf(Sessionless(v), acct, res)
           IN
           /\ SelectSeq(with, NotMessage) = without
           /\ AliasAfter(with) = AliasAfter(without)
           /\ CoreAfter(acct, with) = CoreAfter(acct, without)
           /\ ApplySuccess(success[r], with) = ApplySuccess(success[r], without)
           /\ ApplyHolds(holds[r], with) = ApplyHolds(holds[r], without)
           /\ ~alive[v.user] => with = without /\ MsgsAfter(v, with) = msgs

\* No step sends a message to a session that is gone.
C14_NoMessageStep == \A u \in Users : ~alive[u] => msgs'[u] = msgs[u]

C14_VanishedSessionIsNoSession ==
    []C14_SameAsSessionless /\ [][C14_NoMessageStep]_vars

\* A login of u1 created the account after u1 had gone: NickServ exists, yet
\* u1 got no message.
C14_Witness ==
    \E r \in Reqs :
        /\ Len(sinks[r]) = 1
        /\ sinks[r][1].user = "u1"
        /\ sinks[r][1].outcome = "Success"
        /\ Has(steps[r], "OnNickRegister")
        /\ success[r] /\ holds[r] = 0
        /\ nickServ
        /\ ~alive["u1"]
        /\ msgs["u1"] = <<>>

\* ---------------------------------------------------------------- C15
\* The outcome the password column of the row calls for.
OutcomeOfHash(cp, hash) ==
    LET computed == crypt_blowfish_rn(cp, Normalize(hash)) IN
    IF computed = CryptFail THEN "HashMalformed"
    ELSE IF computed = Normalize(hash) THEN "Success"
    ELSE "Mismatch"

\* C15: a row with a missing column never aborts the callback, which runs to
\* its delete this.  With a password column and no email column the outcome
\* is the one the password column calls for, Success included, no email is
\* set and no account that exists is changed; with no password column the
\* outcome is HashMalformed whatever the email column holds: Success is not
\* called, the account store is unchanged and the hold is released.
C15_ExtractStep ==
    \A r \in Reqs : \A i \in DOMAIN sinks[r] : \A res \in ExtractResults :
        (/\ Pending(r, i)
         /\ sinks'[r][i].outcome # "none"
         /\ OnResult(r, i, res))
        => /\ sinks'[r][i].state = "destroyed"
           /\ holds'[r] = 0
           /\ ~Has(Added(r), "set email")
           /\ res.hasPassword
                 => /\ sinks'[r][i].outcome
                          = OutcomeOfHash(sinks[r][i].currPass, res.password)
                    /\ success'[r] <=> sinks'[r][i].outcome = "Success"
                    /\ \A a \in Accounts :
                          /\ NickCoreList[a].exists
                                => NickCoreList'[a] = NickCoreList[a]
                          /\ NickCoreList'[a].email = NickCoreList[a].email
           /\ ~res.hasPassword
                 => /\ sinks'[r][i].outcome = "HashMalformed"
                    /\ ~success'[r]
                    /\ ~Has(Added(r), "Success")
                    /\ NoAccountOps(Added(r))
                    /\ UNCHANGED storeVars

C15_MissingColumnsTolerated == [][C15_ExtractStep]_vars

\* A login answered by a row without email column succeeded and left the
\* email alice had.
C15_Witness ==
    \E r \in Reqs :
        /\ request[r].account = "alice"
        /\ Len(sinks[r]) = 1
        /\ sinks[r][1].outcome = "Success"
        /\ success[r]
        /\ ~Has(steps[r], "new NickCore")
        /\ NickCoreList["alice"].email = "old@x"

\* ---------------------------------------------------------------- C16
CompareLogs == {"hash NOT EQUAL pass", "Unsuccessful authentication", "LOGGED IN"}

\* C16: when the primitive fails on the normalized stored hash of a row, an
\* empty hash included, OnResult ends in HashMalformed: it logs the failure
\* and takes neither branch of the comparison, performs no account operation,
\* does not call Success, and releases the hold by deleting itself; a request
\* whose verifier ended in HashMalformed is never marked successful.
C16_MalformedStep ==
    \A r \in Reqs : \A i \in DOMAIN sinks[r] : \A res \in Results :
        (/\ Pending(r, i)
         /\ sinks'[r][i].outcome # "none"
         /\ res.rows > 0
         /\ Recomputed(sinks[r][i], res) = CryptFail
         /\ OnResult(r, i, res))
        => /\ sinks'[r][i].outcome = "HashMalformed"
           /\ \E k \in DOMAIN Added(r) :
                 Added(r)[k] = Step("Log", "Bcrypt comparison failed")
           /\ \A k \in DOMAIN Added(r) :
                 Added(r)[k][1] = "Log" => Added(r)[k][2] \notin CompareLogs
           /\ NoAccountOps(Added(r))
           /\ ~Has(Added(r), "Success")
           /\ Count(Added(r), "Release") = 1
           /\ ~success'[r]
           /\ holds'[r] = 0
           /\ UNCHANGED <<storeVars, msgs>>

C16_MalformedState ==
    \A r \in Reqs : \A i \in DOMAIN sinks[r] :
        sinks[r][i].outcome = "HashMalformed"
            => ~success[r] /\ (Finished(r, i) => holds[r] = 0)

C16_PrimitiveFailureIsHashMalformed ==
    []C16_MalformedState /\ [][C16_MalformedStep]_vars

C16_Witness ==
    \E r \in Reqs : \E i \in DOMAIN sinks[r] :
        /\ sinks[r][i].outcome = "HashMalformed"
        /\ sinks[r][i].state = "destroyed"
        /\ steps[r][Len(steps[r])] = Step("Release", "")
        /\ \E k \in DOMAIN steps[r] :
              steps[r][k] = Step("Log", "Bcrypt comparison failed")
        /\ ~success[r]
        /\ holds[r] = 0

\* ---------------------------------------------------------------- C17
\* C17 as stated: the gate stops two commands only, the registration and the
\* email change, each only when its policy string is non-empty, and lets
\* every other command continue.
C17_TwoCommandsStep ==
    \A name \in Commands :
        OnPreCommand(name)
        => lastReturn' = (IF \/ name = "nickserv/register" /\ disable_reason # ""
                             \/ name = "nickserv/set/email"
                                   /\ disable_email_reason # ""
                          THEN "EVENT_STOP"
                          ELSE "EVENT_CONTINUE")

C17_StopsTwoCommands == [][C17_TwoCommandsStep]_vars

\* C17: the gate stops three commands only: nickserv/register and
\* nickserv/group, each only when disable_reason is non-empty and with
\* disable_reason as the reply, and nickserv/set/email, only when
\* disable_email_reason is non-empty and with disable_email_reason as the
\* reply; every other command, and each of the three when its policy string
\* is empty, continues without a reply.
C17_ThreeCommandsStep ==
    \A name \in Commands :
        OnPreCommand(name)
        => /\ lastCommand' = name
           /\ lastReturn' \in {"EVENT_STOP", "EVENT_CONTINUE"}
           /\ lastReturn' = "EVENT_STOP"
                 <=> \/ name \in {"nickserv/register", "nickserv/group"}
                          /\ disable_reason # ""
                     \/ name = "nickserv/set/email" /\ disable_email_reason # ""
           /\ lastReply' =
                 (IF lastReturn' = "EVENT_CONTINUE" THEN <<>>
                  ELSE IF name = "nickserv/set/email" THEN <<disable_email_reason>>
                  ELSE <<disable_reason>>)

C17_StopsThreeCommands == [][C17_ThreeCommandsStep]_vars

\* nickserv/group was stopped with the registration policy's message.
C17_Witness ==
    /\ lastCommand = "nickserv/group"
    /\ lastReturn = "EVENT_STOP"
    /\ disable_reason # ""
    /\ lastReply = <<disable_reason>>

\* ---------------------------------------------------------------- C18
\* C18: in the steps of a request on which Success was called, the account
\* lookup, every account creation, every email update and every message
\* precede the Success, and the Success precedes the Release; and the account
\* of every request marked successful exists locally, its nick bound to a
\* core that exists.
C18_SyncThenSuccessThenRelease ==
    \A r \in Reqs :
        /\ Has(steps[r], "Success")
              => /\ Has(steps[r], "NickAlias::Find")
                 /\ Has(steps[r], "Release")
                 /\ Pos(steps[r], "Success") < Pos(steps[r], "Release")
                 /\ \A k \in DOMAIN steps[r] :
                       (steps[r][k][1] \in AccountOps \/ IsMessage(steps[r][k]))
                           => k < Pos(steps[r], "Success")
        /\ success[r]
              => /\ Has(steps[r], "Success")
                 /\ NickAliasList[request[r].account].exists
                 /\ NickCoreList[NickAliasList[request[r].account].nc].exists

\* A login that created the account and set its email, then called Success,
\* then released the hold.
C18_Witness ==
    \E r \in Reqs :
        /\ success[r]
        /\ Has(steps[r], "new NickAlias")
        /\ Has(steps[r], "set email")
        /\ Pos(steps[r], "new NickAlias") < Pos(steps[r], "set email")
        /\ Pos(steps[r], "set email") < Pos(steps[r], "Success")
        /\ Pos(steps[r], "Success") < Pos(steps[r], "Release")
        /\ NickAliasList[request[r].account].exists

\* ---------------------------------------------------------------- C19
\* The steps op(a) performed for any request, each named by request and
\* position.
Events(op, a) ==
    UNION {{<<r, k>> : k \in {j \in DOMAIN steps[r] : steps[r][j] = Step(op, a)}} :
           r \in Reqs}

\* C19: however many login attempts are in flight for an account name and in
\* whatever order their callbacks are delivered, at most one NickCore and one
\* NickAlias are created for the name and at most one OnNickRegister is
\* raised for it; an account created for a name exists from then on.
C19_AtMostOneAccount ==
    \A a \in Accounts :
        /\ \A op \in CreationOps : Cardinality(Events(op, a)) <= 1
        /\ \A op \in CreationOps :
              Cardinality(Events(op, a)) = Cardinality(Events("OnNickRegister", a))
        /\ Events("OnNickRegister", a) # {} => ~NeedsAccount(a)

\* Two attempts for bob were in flight at once: the second one's callback
\* came first and created the account, the first one's callback found it.
C19_Witness ==
    /\ request[1].account = "bob" /\ request[2].account = "bob"
    /\ success[1] /\ success[2]
    /\ Has(steps[2], "OnNickRegister")
    /\ Cardinality(Events("OnNickRegister", "bob")) = 1
    /\ Has(steps[1], "NickAlias::Find")
    /\ ~Has(steps[1], "new NickAlias")

\* ---------------------------------------------------------------- C20
\* The calls a step sequence makes on the IdentifyRequest.
RequestCalls == {"GetAccount", "GetPassword", "Hold", "Success", "Release"}

\* C20: in the steps of every request the hold is released at most once and
\* no call on the IdentifyRequest follows the Release; delete this is
\* performed at most once and nothing follows it but the Release its
\* destructor makes; and a verifier that is destroyed has done both.
C20_ReleaseAndDeleteLast ==
    \A r \in Reqs :
        /\ Count(steps[r], "Release") <= 1
        /\ Count(steps[r], "delete this") <= 1
        /\ \A k \in DOMAIN steps[r] : \A j \in DOMAIN steps[r] :
              j > k
              => /\ steps[r][k][1] = "Release"
                       => steps[r][j][1] \notin RequestCalls
                 /\ steps[r][k][1] = "delete this"
                       => steps[r][j][1] = "Release"
        /\ \A i \in DOMAIN sinks[r] :
              Finished(r, i)
              => /\ sinks[r][i].state = "destroyed"
                 /\ Has(steps[r], "delete this")
                 /\ Has(steps[r], "Release")

\* A successful login: Success, then delete this, then the destructor's
\* Release, and nothing after it.
C20_Witness ==
    \E r \in Reqs :
        /\ Len(steps[r]) > 3
        /\ steps[r][Len(steps[r]) - 2] = Step("Success", "")
        /\ steps[r][Len(steps[r]) - 1] = Step("delete this", "")
        /\ steps[r][Len(steps[r])] = Step("Release", "")
        /\ \A i \in DOMAIN sinks[r] : sinks[r][i].state = "destroyed"

====
